---- MODULE Spec2Model ----
(***************************************************************************)
(* Model of gvr::Batch (engine/renderer/batch.cpp): the draw-call batching *)
(* container that merges the meshes of several render-data objects into    *)
(* one vertex/index buffer set under an index capacity limit.              *)
(*                                                                         *)
(* The Batch object is the record `batch`, one field per data member.      *)
(* Render-data objects are identified by the numbers in Renderables; the   *)
(* mutable flags of each live in `rd`.  Every member function is a pure    *)
(* operator on these records, and every public entry point (add,           *)
(* setupMesh) is one action that applies the whole function.               *)
(***************************************************************************)
EXTENDS Integers, Sequences, FiniteSets

VARIABLES
    batch,       \* the Batch object: one field per data member
    batch2,      \* a second Batch object of the pool, offered the same
                 \* render data
    rd,          \* per render data: enabled, owner_enabled, batching, batch
                 \* (the back-reference cleared by setBatchNull) and the
                 \* dirty flags cleared by add
    free_calls,  \* gRenderer->freeBatch(this) calls since the batch last
                 \* accepted a render data
    merge_log,   \* history: the render data updateMesh has appended since
                 \* the last clearData, in order
    op,          \* the last call and its argument
    ret,         \* the value the last call of add or setupMesh that
                 \* returned has returned
    build,       \* what this build of the program does at the end of
                 \* updateMesh: one of FallOffEnd, fixed when it is compiled
    alive        \* the process runs: FALSE once a call has died, and the
                 \* batch is then as the call left it when it died

vars == <<batch, batch2, rd, free_calls, merge_log, op, ret, build, alive>>

(***************************************************************************)
(* Bounds of the model.                                                    *)
(***************************************************************************)
\* no_indices handed to the constructor
IndicesLimit == 5
\* no_vertices handed to the constructor
VertexLimit == 6
\* cap on the length of matrices_ (it grows on every call of add)
MaxMatrices == 2
\* cap on the number of freeBatch notifications between two accepted adds
MaxFreeCalls == 2
\* cap on the number of render data the scene disables
MaxDisabled == 1

\* unsigned short index arithmetic (batch.cpp:65-66) is done modulo 2^16
IndexModulus == 65536

(***************************************************************************)
(* The render-data objects offered to the batch, and their meshes.         *)
(*   1     textured triangle                                               *)
(*   2     textured, two indices, no transform and no normals              *)
(*   3     textured, three indices over seven vertices                     *)
(*   4     opted out of batching                                           *)
(*   5     second pass uses a shader other than the texture shader         *)
(*   6     more indices than any limit used here                           *)
(*   7     an empty mesh: no vertices and no indices                       *)
(***************************************************************************)
Renderables == 1..7

\* render_mesh->vertices().size()
MeshVertexCount(r) ==
    CASE r = 3 -> 7
      [] r = 6 -> 4
      [] r = 7 -> 0
      [] OTHER -> 3

\* render_mesh->indices(), every value below the mesh's vertex count
MeshIndices(r) ==
    CASE r = 2 -> <<2, 0>>
      [] r = 3 -> <<0, 3, 6>>
      [] r = 6 -> <<0, 1, 2, 2, 3, 0, 0, 1, 3>>
      [] r = 7 -> <<>>
      [] OTHER -> <<0, 1, 2>>

\* render_mesh->normals().size(): a mesh has all its normals or none
MeshNormalCount(r) == IF r \in {2, 7} THEN 0 ELSE MeshVertexCount(r)

\* the values held by the source mesh, named by mesh and position
Vertex(r, i) == <<"pos", r, i>>
TexCoord(r, i) == <<"uv", r, i>>
Normal(r, i) == <<"nrm", r, i>>

\* shader_type() of the material of each pass of the render data
PassShaders(r) ==
    IF r = 5 THEN <<"TEXTURE_SHADER", "OTHER_SHADER">> ELSE <<"TEXTURE_SHADER">>

\* render_data->batching() before the batch has seen the render data
InitialBatching(r) == r # 4

\* pass(0)->material(): the render data offered to one batch share it
PassZeroMaterial(r) == 1

\* the dirty flags of the render data and of its owner's transform before
\* the batch has seen the render data
InitialDirty(r) == r = 1

\* the back-reference of the render data to its batch, which setBatchNull
\* clears: the caller has assigned some render data to this batch before
\* it offers them, and offers the others unassigned
InitialBatchRef(r) == IF r \in {1, 2, 4, 6} THEN "this" ELSE "null"

\* owner_object()->transform() != NULL
HasTransform(r) == r # 2

\* The model matrix of the owner: r stands for the matrix of the transform
\* of r, 0 for the default-constructed glm::mat4 (identity).
ModelMatrix(r) == IF HasTransform(r) THEN r ELSE 0

(***************************************************************************)
(* Helpers                                                                 *)
(***************************************************************************)
EmptyMap == [x \in {} |-> 0]

MapPut(m, k, v) == [x \in (DOMAIN m) \cup {k} |-> IF x = k THEN v ELSE m[x]]

\* the orders in which a container holding S may be iterated
Orders(S) ==
    {s \in [1..Cardinality(S) -> S] :
        \A i, j \in 1..Cardinality(S) : i # j => s[i] # s[j]}

\* a Batch object that has not been constructed
Unconstructed == <<>>

\* What the storage a Batch is constructed in can hold where material_
\* lies: 0 for a null pointer, 1 for the material of a batch that lived
\* there before, 2 for bytes that are neither.
StorageMaterials == {0, 1, 2}

\* What a build does when control reaches the closing brace of updateMesh
\* (line 74), a function declared bool, without a return statement: the
\* behaviour is undefined.  Built without optimisation the call returns to
\* its caller; an optimising build emits no return and the process dies.
FallOffEnd == {"returns", "dies"}

EmptyMesh ==
    [vertices |-> <<>>, normals |-> <<>>, tex_coords |-> <<>>,
     indices |-> <<>>, matrix_indices |-> <<>>]

(***************************************************************************)
(* Batch::Batch                                                            *)
(***************************************************************************)
\* The initialiser list (lines 24-27) leaves material_ out: the member
\* holds `material`, what the storage held before.
NewBatch(no_vertices, no_indices, material) ==
    [draw_count_ |-> 0, vertex_count_ |-> 0, index_count_ |-> 0,
     vertex_limit_ |-> no_vertices, indices_limit_ |-> no_indices,
     renderdata_ |-> <<>>, mesh_init_ |-> FALSE, index_offset_ |-> 0,
     not_batched_ |-> FALSE, batch_dirty_ |-> FALSE,
     vertices_ |-> <<>>, indices_ |-> <<>>, normals_ |-> <<>>,
     tex_coords_ |-> <<>>, matrix_indices_ |-> <<>>,
     matrices_ |-> <<>>, matrix_index_map_ |-> EmptyMap,
     render_data_set_ |-> {}, material_ |-> material, mesh_ |-> EmptyMesh]

(***************************************************************************)
(* Batch::updateMesh                                                       *)
(***************************************************************************)
\* a merge that forgets the running offset
OffsetIndexNoOffset(index, index_offset) == index % IndexModulus

\* the value pushed into indices_ for source index `index`
OffsetIndex(index, index_offset) == (index + index_offset) % IndexModulus

\* a merge that counts the draw before it tags the vertices
MatrixIndexTagAfterIncrement(b) == b.draw_count_ + 1

\* the value pushed into matrix_indices_ for every vertex of the mesh
MatrixIndexTag(b) == b.draw_count_

\* updateMesh is declared bool and has no return statement.  `end` is what
\* the build does at its closing brace: the appends of lines 43-73 are done
\* in either case, and alive tells whether the call returns to its caller
\* (the value returned is indeterminate and no caller reads it).
UpdateMesh(b, r, end) ==
    LET size == MeshVertexCount(r)
        indices == MeshIndices(r)
    IN  [batch |->
            [b EXCEPT
               !.vertices_ = @ \o [i \in 1..size |-> Vertex(r, i - 1)],
               !.matrix_indices_ = @ \o [i \in 1..size |-> MatrixIndexTag(b)],
               !.tex_coords_ = @ \o [i \in 1..size |-> TexCoord(r, i - 1)],
               !.normals_ = @ \o [i \in 1..MeshNormalCount(r) |-> Normal(r, i - 1)],
               !.index_count_ = @ + Len(indices),
               !.indices_ = @ \o [i \in 1..Len(indices) |->
                                     OffsetIndex(indices[i], b.index_offset_)],
               !.vertex_count_ = @ + size,
               !.index_offset_ = @ + size,
               !.draw_count_ = @ + 1,
               !.mesh_init_ = FALSE],
         alive |-> end = "returns"]

(***************************************************************************)
(* Batch::add                                                              *)
(***************************************************************************)
\* lines 79-94: material, model matrix and its index, done on every call
AddBookkeeping(b, r) ==
    [b EXCEPT !.material_ = PassZeroMaterial(r),
              !.matrix_index_map_ = MapPut(@, r, b.draw_count_),
              !.matrices_ = Append(@, ModelMatrix(r))]

\* a shader check that looks at the first pass only
HasNonTextureShaderFirstPass(r) == PassShaders(r)[1] # "TEXTURE_SHADER"

\* lines 103-110: some pass does not use the texture shader
HasNonTextureShader(r) ==
    \E i \in 1..Len(PassShaders(r)) : PassShaders(r)[i] # "TEXTURE_SHADER"

\* a capacity check that looks at the mesh alone, not at what is merged
MeshTooLargeOwnSize(b, r) ==
    \/ Len(MeshIndices(r)) = 0
    \/ Len(MeshIndices(r)) > b.indices_limit_

\* line 112: the mesh has no indices or does not fit
MeshTooLarge(b, r) ==
    \/ Len(MeshIndices(r)) = 0
    \/ Len(MeshIndices(r)) + b.index_count_ > b.indices_limit_

\* lines 123-128: the render data is copied on the first merge
CloneRenderData(b, r) ==
    IF b.draw_count_ = 0 /\ b.renderdata_ = <<>>
    THEN [b EXCEPT !.renderdata_ =
                      <<[of |-> r, batching |-> TRUE, mesh |-> "source"]>>]
    ELSE b

InsertRenderData(b, r) == [b EXCEPT !.render_data_set_ = @ \cup {r}]

\* The whole of Batch::add: the batch after the call, the value returned,
\* the batching flag of the render data after the call, whether updateMesh
\* ran, and whether the call returned (ret means nothing when it did not).
BatchAdd(b, batching, r, end) ==
    LET b1 == AddBookkeeping(b, r)
        u == UpdateMesh(InsertRenderData(CloneRenderData(b1, r), r), r, end)
    IN  IF ~batching
        THEN [batch |-> [InsertRenderData(b1, r) EXCEPT !.not_batched_ = TRUE],
              ret |-> TRUE, batching |-> batching, merged |-> FALSE,
              alive |-> TRUE]
        ELSE IF HasNonTextureShader(r)
        THEN [batch |-> InsertRenderData(b1, r),
              ret |-> TRUE, batching |-> batching, merged |-> FALSE,
              alive |-> TRUE]
        ELSE IF MeshTooLarge(b1, r)
        THEN IF b1.draw_count_ > 0
             THEN [batch |-> b1,
                   ret |-> FALSE, batching |-> batching, merged |-> FALSE,
                   alive |-> TRUE]
             ELSE [batch |-> [InsertRenderData(b1, r)
                                 EXCEPT !.not_batched_ = TRUE],
                   ret |-> TRUE, batching |-> FALSE, merged |-> FALSE,
                   alive |-> TRUE]
        ELSE [batch |-> u.batch,
              ret |-> TRUE, batching |-> batching, merged |-> TRUE,
              alive |-> u.alive]

(***************************************************************************)
(* Batch::clearData, Batch::resetBatch                                     *)
(***************************************************************************)
\* a clear that leaves the texture coordinates behind
ClearDataKeepsTexCoords(b) ==
    [b EXCEPT !.vertex_count_ = 0, !.index_count_ = 0, !.index_offset_ = 0,
              !.draw_count_ = 0, !.matrix_index_map_ = EmptyMap,
              !.matrix_indices_ = <<>>, !.matrices_ = <<>>,
              !.vertices_ = <<>>, !.normals_ = <<>>,
              !.indices_ = <<>>, !.mesh_init_ = FALSE,
              !.batch_dirty_ = FALSE]

ClearData(b) ==
    [b EXCEPT !.vertex_count_ = 0, !.index_count_ = 0, !.index_offset_ = 0,
              !.draw_count_ = 0, !.matrix_index_map_ = EmptyMap,
              !.matrix_indices_ = <<>>, !.matrices_ = <<>>,
              !.tex_coords_ = <<>>, !.vertices_ = <<>>, !.normals_ = <<>>,
              !.indices_ = <<>>, !.mesh_init_ = FALSE,
              !.batch_dirty_ = FALSE]

\* without the freeBatch notification, which the action counts
ResetBatch(b) == [ClearData(b) EXCEPT !.renderdata_ = <<>>]

(***************************************************************************)
(* Batch::isRenderModified                                                 *)
(***************************************************************************)
\* a scan that looks at the render data and not at its owner
EvictedIgnoresOwner(b, rds) == {r \in b.render_data_set_ : ~rds[r].enabled}

\* the members the scan erases
Evicted(b, rds) ==
    {r \in b.render_data_set_ : ~rds[r].enabled \/ ~rds[r].owner_enabled}

ScanRenderData(b, rds) ==
    [b EXCEPT !.render_data_set_ = @ \ Evicted(b, rds)]

ScanFlags(b, rds) ==
    [r \in Renderables |->
        IF r \in Evicted(b, rds)
        THEN [rds[r] EXCEPT !.batching = FALSE, !.batch = "null"]
        ELSE rds[r]]

(***************************************************************************)
(* Batch::regenerateMeshData, Batch::meshInit                              *)
(***************************************************************************)
RECURSIVE MergeAll(_, _, _)
\* the loop of lines 198-211 over the members in iteration order `order`;
\* it goes no further than an updateMesh call that does not return
MergeAll(b, order, end) ==
    IF order = <<>> THEN [batch |-> b, alive |-> TRUE]
    ELSE LET r == Head(order)
             b1 == [b EXCEPT !.matrix_index_map_ = MapPut(@, r, b.draw_count_),
                             !.matrices_ = Append(@, ModelMatrix(r))]
             u == UpdateMesh(b1, r, end)
         IN  IF u.alive THEN MergeAll(u.batch, Tail(order), end) ELSE u

\* a regeneration that appends to the old buffers
RegenerateWithoutClear(b, order, end) == MergeAll(b, order, end)

RegenerateMeshData(b, order, end) == MergeAll(ClearData(b), order, end)

\* a mesh build that leaves the matrix-index attribute out
MeshInitWithoutMatrixIndices(b) ==
    [b EXCEPT !.mesh_init_ = TRUE,
              !.mesh_ = [vertices |-> b.vertices_, normals |-> b.normals_,
                         tex_coords |-> b.tex_coords_, indices |-> b.indices_,
                         matrix_indices |-> b.mesh_.matrix_indices],
              !.renderdata_ = IF @ = <<>> THEN @
                              ELSE <<[@[1] EXCEPT !.mesh = "batch_mesh"]>>]

MeshInit(b) ==
    [b EXCEPT !.mesh_init_ = TRUE,
              !.mesh_ = [vertices |-> b.vertices_, normals |-> b.normals_,
                         tex_coords |-> b.tex_coords_, indices |-> b.indices_,
                         matrix_indices |-> b.matrix_indices_],
              !.renderdata_ = IF @ = <<>> THEN @
                              ELSE <<[@[1] EXCEPT !.mesh = "batch_mesh"]>>]

(***************************************************************************)
(* Batch::setupMesh, after the scan, for a batch that still has members    *)
(***************************************************************************)
\* a refresh that regenerates on every call
SetupActiveAlwaysRegenerates(b, regenerate, order, end) ==
    LET g == RegenerateMeshData(b, order, end)
        b2 == [g.batch EXCEPT !.batch_dirty_ = FALSE]
    IN  IF ~g.alive THEN g
        ELSE [batch |-> IF ~b2.mesh_init_ THEN MeshInit(b2) ELSE b2,
              alive |-> TRUE]

\* the batch after lines 189-194, or as it was when updateMesh did not
\* return to regenerateMeshData
SetupActive(b, regenerate, order, end) ==
    LET g == IF regenerate THEN RegenerateMeshData(b, order, end)
             ELSE [batch |-> b, alive |-> TRUE]
        b2 == [g.batch EXCEPT !.batch_dirty_ = FALSE]
    IN  IF ~g.alive THEN g
        ELSE [batch |-> IF ~b2.mesh_init_ THEN MeshInit(b2) ELSE b2,
              alive |-> TRUE]

\* the orders in which regenerateMeshData may go through the members; the
\* set is not iterated when nothing is regenerated
IterationOrders(b, regenerate) ==
    IF regenerate THEN Orders(b.render_data_set_) ELSE {<<>>}

(***************************************************************************)
(* State machine                                                           *)
(***************************************************************************)
\* the render data, the observers and the process before the first call
InitScene ==
    /\ rd = [r \in Renderables |->
                [enabled |-> TRUE, owner_enabled |-> TRUE,
                 batching |-> InitialBatching(r), batch |-> InitialBatchRef(r),
                 renderdata_dirty |-> InitialDirty(r),
                 transform_dirty |-> InitialDirty(r)]]
    /\ free_calls = 0
    /\ merge_log = <<>>
    /\ op = [name |-> "new", arg |-> 0]
    /\ ret = TRUE
    /\ build \in FallOffEnd
    /\ alive = TRUE

Init ==
    /\ \E material \in StorageMaterials :
          batch = NewBatch(VertexLimit, IndicesLimit, material)
    /\ batch2 = Unconstructed
    /\ InitScene

\* batch.add(r).  The caller offers render data that are enabled, whose
\* owner is enabled, and that the batch does not track yet; add itself
\* checks none of this.  getHashCode() (line 88) changes nothing modelled.
\* When updateMesh does not return, neither does add: ret keeps its value
\* and no further call is made.
Add(r) ==
    /\ alive
    /\ r \notin batch.render_data_set_
    /\ rd[r].enabled /\ rd[r].owner_enabled
    /\ Len(batch.matrices_) < MaxMatrices
    /\ \E res \in {BatchAdd(batch, rd[r].batching, r, build)} :
        /\ batch' = res.batch
        /\ rd' = [rd EXCEPT ![r].batching = res.batching,
                            ![r].renderdata_dirty = FALSE,
                            ![r].transform_dirty = FALSE]
        /\ ret' = IF res.alive THEN res.ret ELSE ret
        /\ merge_log' = IF res.merged THEN Append(merge_log, r)
                        ELSE merge_log
        /\ free_calls' = IF res.alive /\ res.ret THEN 0 ELSE free_calls
        /\ alive' = res.alive
    /\ op' = [name |-> "add", arg |-> r]
    /\ UNCHANGED <<batch2, build>>

\* the render data that are disabled or whose owner is
Disabled == {r \in Renderables : ~rd[r].enabled \/ ~rd[r].owner_enabled}

\* the scene disables a member of the batch (the odd ones themselves, the
\* even ones through their owner)
Disable(r) ==
    /\ alive
    /\ r \in batch.render_data_set_
    /\ r % 2 = 1
    /\ r \notin Disabled
    /\ Cardinality(Disabled) < MaxDisabled
    /\ rd' = [rd EXCEPT ![r].enabled = FALSE]
    /\ op' = [name |-> "disable", arg |-> r]
    /\ UNCHANGED <<batch, batch2, free_calls, merge_log, ret, build, alive>>

\* the scene disables the object that owns a member of the batch
DisableOwner(r) ==
    /\ alive
    /\ r \in batch.render_data_set_
    /\ r % 2 = 0
    /\ r \notin Disabled
    /\ Cardinality(Disabled) < MaxDisabled
    /\ rd' = [rd EXCEPT ![r].owner_enabled = FALSE]
    /\ op' = [name |-> "disable_owner", arg |-> r]
    /\ UNCHANGED <<batch, batch2, free_calls, merge_log, ret, build, alive>>

\* batch.setupMesh(batch_dirty) when the scan leaves no member
SetupMeshEmpty(batch_dirty) ==
    /\ alive
    /\ ScanRenderData(batch, rd).render_data_set_ = {}
    /\ free_calls < MaxFreeCalls
    /\ batch' = ResetBatch(ScanRenderData(batch, rd))
    /\ rd' = ScanFlags(batch, rd)
    /\ free_calls' = free_calls + 1
    /\ merge_log' = <<>>
    /\ ret' = FALSE
    /\ op' = [name |-> "setupMesh", arg |-> IF batch_dirty THEN 1 ELSE 0]
    /\ UNCHANGED <<batch2, build, alive>>

\* batch.setupMesh(batch_dirty) when members remain after the scan.  When
\* updateMesh does not return, the call dies in the first round of the
\* regeneration loop.
SetupMeshActive(batch_dirty) ==
    LET b1 == ScanRenderData(batch, rd)
        update_vbo == Evicted(batch, rd) # {}
        regenerate == batch_dirty \/ update_vbo
    IN  /\ alive
        /\ b1.render_data_set_ # {}
        /\ \E order \in IterationOrders(b1, regenerate) :
              \E res \in {SetupActive(b1, regenerate, order, build)} :
                  /\ batch' = res.batch
                  /\ merge_log' = IF ~regenerate THEN merge_log
                                  ELSE IF res.alive THEN order
                                  ELSE <<Head(order)>>
                  /\ ret' = IF res.alive THEN TRUE ELSE ret
                  /\ alive' = res.alive
        /\ rd' = ScanFlags(batch, rd)
        /\ op' = [name |-> "setupMesh", arg |-> IF batch_dirty THEN 1 ELSE 0]
        /\ UNCHANGED <<batch2, free_calls, build>>

Next ==
    \/ \E r \in Renderables : Add(r)
    \/ \E r \in Renderables : Disable(r)
    \/ \E r \in Renderables : DisableOwner(r)
    \/ \E d \in BOOLEAN : SetupMeshEmpty(d)
    \/ \E d \in BOOLEAN : SetupMeshActive(d)

Spec == Init /\ [][Next]_vars

(***************************************************************************)
(* Two batches of the pool that are offered the same render data.          *)
(***************************************************************************)
InitTwo ==
    /\ \E material \in StorageMaterials :
          batch = NewBatch(VertexLimit, IndicesLimit, material)
    /\ \E material \in StorageMaterials :
          batch2 = NewBatch(VertexLimit, IndicesLimit, material)
    /\ InitScene

\* batch2.add(r), under the same caller contract as Add
AddOther(r) ==
    /\ alive
    /\ r \notin batch2.render_data_set_
    /\ rd[r].enabled /\ rd[r].owner_enabled
    /\ Len(batch2.matrices_) < MaxMatrices
    /\ \E res \in {BatchAdd(batch2, rd[r].batching, r, build)} :
        /\ batch2' = res.batch
        /\ rd' = [rd EXCEPT ![r].batching = res.batching,
                            ![r].renderdata_dirty = FALSE,
                            ![r].transform_dirty = FALSE]
        /\ ret' = IF res.alive THEN res.ret ELSE ret
        /\ alive' = res.alive
    /\ op' = [name |-> "add2", arg |-> r]
    /\ UNCHANGED <<batch, free_calls, merge_log, build>>

\* batch2.setupMesh(batch_dirty) when the scan leaves no member
SetupMeshOtherEmpty(batch_dirty) ==
    /\ alive
    /\ ScanRenderData(batch2, rd).render_data_set_ = {}
    /\ batch2' = ResetBatch(ScanRenderData(batch2, rd))
    /\ rd' = ScanFlags(batch2, rd)
    /\ ret' = FALSE
    /\ op' = [name |-> "setupMesh2", arg |-> IF batch_dirty THEN 1 ELSE 0]
    /\ UNCHANGED <<batch, free_calls, merge_log, build, alive>>

\* batch2.setupMesh(batch_dirty) when members remain after the scan
SetupMeshOtherActive(batch_dirty) ==
    LET b1 == ScanRenderData(batch2, rd)
        regenerate == batch_dirty \/ Evicted(batch2, rd) # {}
    IN  /\ alive
        /\ b1.render_data_set_ # {}
        /\ \E order \in IterationOrders(b1, regenerate) :
              \E res \in {SetupActive(b1, regenerate, order, build)} :
                  /\ batch2' = res.batch
                  /\ ret' = IF res.alive THEN TRUE ELSE ret
                  /\ alive' = res.alive
        /\ rd' = ScanFlags(batch2, rd)
        /\ op' = [name |-> "setupMesh2", arg |-> IF batch_dirty THEN 1 ELSE 0]
        /\ UNCHANGED <<batch, free_calls, merge_log, build>>

\* the render data offered to both batches: a textured triangle, a
\* two-index mesh and one that opted out of batching
Shared == {1, 2, 4}

NextTwo ==
    \/ \E r \in Shared : Add(r)
    \/ \E r \in Shared : Disable(r)
    \/ \E r \in Shared : DisableOwner(r)
    \/ \E d \in BOOLEAN : SetupMeshEmpty(d)
    \/ \E d \in BOOLEAN : SetupMeshActive(d)
    \/ \E r \in Shared : AddOther(r)
    \/ \E d \in BOOLEAN : SetupMeshOtherEmpty(d)
    \/ \E d \in BOOLEAN : SetupMeshOtherActive(d)

SpecTwo == InitTwo /\ [][NextTwo]_vars

(***************************************************************************)
(* Sequences of add calls alone, on batches constructed with several index *)
(* limits.                                                                 *)
(***************************************************************************)
InitAdd ==
    /\ \E no_indices \in (IndicesLimit - 2)..IndicesLimit :
          \E material \in StorageMaterials :
             batch = NewBatch(VertexLimit, no_indices, material)
    /\ batch2 = Unconstructed
    /\ InitScene

NextAdd == \E r \in Renderables : Add(r)

SpecAdd == InitAdd /\ [][NextAdd]_vars

(***************************************************************************)
(* Properties                                                              *)
(***************************************************************************)
\* merge_log holds, in order, the render data whose meshes updateMesh has
\* appended since the buffers were last cleared.  The expected contents of
\* the buffers are computed from it alone.
RECURSIVE VerticesOf(_)
VerticesOf(log) ==
    IF log = <<>> THEN 0
    ELSE VerticesOf(SubSeq(log, 1, Len(log) - 1)) + MeshVertexCount(log[Len(log)])

RECURSIVE ExpectedTags(_)
ExpectedTags(log) ==
    IF log = <<>> THEN <<>>
    ELSE ExpectedTags(SubSeq(log, 1, Len(log) - 1))
            \o [i \in 1..MeshVertexCount(log[Len(log)]) |-> Len(log) - 1]

RECURSIVE ExpectedIndices(_)
ExpectedIndices(log) ==
    IF log = <<>> THEN <<>>
    ELSE LET front == SubSeq(log, 1, Len(log) - 1)
             src == MeshIndices(log[Len(log)])
         IN  ExpectedIndices(front)
                \o [i \in 1..Len(src) |->
                        (src[i] + VerticesOf(front)) % IndexModulus]

\* the render data that contributed the vertex at position j of vertices_
Contributor(j) == batch.vertices_[j][2]

\* C1: after every call in any sequence of add calls, index_count does not
\* exceed indices_limit.
C1_IndexCountWithinLimit == batch.index_count_ <= batch.indices_limit_

\* C1 witness: a batch with a merged mesh turned away a mesh that would fit
\* an empty batch but not on top of what is merged.
C1_Witness ==
    /\ alive
    /\ op.name = "add"
    /\ ~ret
    /\ batch.draw_count_ >= 1
    /\ Len(MeshIndices(op.arg)) \in 1..batch.indices_limit_
    /\ batch.index_count_ + Len(MeshIndices(op.arg)) > batch.indices_limit_

\* C2: after every call in any sequence of add calls, vertex_count does not
\* exceed vertex_limit, also for a mesh of few indices and many vertices.
C2_VertexCountWithinLimit == batch.vertex_count_ <= batch.vertex_limit_

\* C3: index_count does not exceed indices_limit in any state reachable by
\* add, disabling of members and setupMesh, in particular after a
\* regeneration of a batch that tracks members that were not merged.
C3_IndexCountWithinLimitAlways == batch.index_count_ <= batch.indices_limit_

\* C4: the number of matrices equals draw_count in every reachable state.
C4_MatricesMatchDrawCount == Len(batch.matrices_) = batch.draw_count_

\* C5: for every merged vertex, the matrix at the position given by the
\* vertex's matrix-index tag is the model matrix of the render data that
\* contributed the vertex, and matrix_index_map maps that render data to
\* the tag.
C5_TagSelectsOwnMatrix ==
    \A j \in 1..Len(batch.vertices_) :
        LET tag == batch.matrix_indices_[j]
            r == Contributor(j)
        IN  /\ tag + 1 \in 1..Len(batch.matrices_)
            /\ batch.matrices_[tag + 1] = ModelMatrix(r)
            /\ r \in DOMAIN batch.matrix_index_map_
            /\ batch.matrix_index_map_[r] = tag

\* C6: the vertices appended by the k-th merge since the last clear carry
\* the tag k-1; the tags are non-decreasing and are exactly the slots
\* 0..draw_count-1 of the merged meshes that have a vertex.
C6_TagsAreDrawSlots ==
    /\ Len(merge_log) = batch.draw_count_
    /\ batch.matrix_indices_ = ExpectedTags(merge_log)
    /\ \A i, j \in 1..Len(batch.matrix_indices_) :
          i <= j => batch.matrix_indices_[i] <= batch.matrix_indices_[j]
    /\ {batch.matrix_indices_[j] : j \in 1..Len(batch.matrix_indices_)}
          = {k - 1 : k \in {n \in 1..batch.draw_count_ :
                               MeshVertexCount(merge_log[n]) > 0}}

\* C6 witness: two meshes with vertices have been merged, so the tags 0 and
\* 1 are both in the buffer.
C6_Witness ==
    /\ batch.draw_count_ = 2
    /\ \E i, j \in 1..Len(batch.matrix_indices_) :
          batch.matrix_indices_[i] = 0 /\ batch.matrix_indices_[j] = 1

\* C7: the vertex, texture-coordinate and matrix-index buffers all have
\* vertex_count elements in every reachable state.
C7_BuffersHaveVertexCount ==
    /\ Len(batch.vertices_) = batch.vertex_count_
    /\ Len(batch.tex_coords_) = batch.vertex_count_
    /\ Len(batch.matrix_indices_) = batch.vertex_count_

\* C7 witness: setupMesh has evicted a member and regenerated the buffers
\* from a member that has vertices.
C7_Witness ==
    /\ alive
    /\ op.name = "setupMesh"
    /\ ret
    /\ Disabled # {}
    /\ batch.vertex_count_ > 0
    /\ batch.draw_count_ = Cardinality(batch.render_data_set_)

\* C8: every value of the index buffer is below vertex_count, and it is the
\* source index plus the number of vertices merged before its mesh, in
\* 16-bit unsigned arithmetic.
C8_IndicesPointIntoVertices ==
    /\ \A i \in 1..Len(batch.indices_) : batch.indices_[i] < batch.vertex_count_
    /\ batch.indices_ = ExpectedIndices(merge_log)
    /\ batch.vertex_count_ = VerticesOf(merge_log)

\* C8 witness: a second mesh has been merged, with its indices moved past
\* the vertices of the first.
C8_Witness ==
    /\ batch.draw_count_ = 2
    /\ batch.index_count_ > 0
    /\ batch.indices_[Len(batch.indices_)] >= MeshVertexCount(merge_log[1])
    /\ MeshVertexCount(merge_log[1]) > 0

\* the fields of the batch that C9 lists
C9_Fields(b) ==
    <<b.vertices_, b.normals_, b.tex_coords_, b.matrix_indices_, b.indices_,
      b.vertex_count_, b.index_count_, b.index_offset_, b.draw_count_,
      b.render_data_set_, b.renderdata_, b.matrices_, b.matrix_index_map_,
      b.not_batched_, b.mesh_init_>>

\* C9: an add that returns failure leaves the batch as it was: buffers,
\* counters, tracking set, prototype, matrices, matrix_index_map and flags.
C9_FailedAddChangesNothing ==
    [][(op'.name = "add" /\ alive' /\ ~ret') => C9_Fields(batch') = C9_Fields(batch)]_vars

\* C10: for a render data that is eligible for batching and whose passes
\* all use the texture shader, add fails exactly when the mesh has no
\* indices or does not fit and a mesh is already merged; with no mesh
\* merged it then succeeds without merging, tracks the render data and
\* clears its batching flag; otherwise it returns success after a merge
\* and draw_count has grown by 1.
C10_AddOutcome ==
    [][\A r \in Renderables :
          (/\ op' = [name |-> "add", arg |-> r]
           /\ rd[r].batching
           /\ \A i \in 1..Len(PassShaders(r)) : PassShaders(r)[i] = "TEXTURE_SHADER")
          => LET n == Len(MeshIndices(r))
                 full == n = 0 \/ batch.index_count_ + n > batch.indices_limit_
             IN  /\ (alive' /\ ~ret') <=> (full /\ batch.draw_count_ >= 1)
                 /\ (full /\ batch.draw_count_ = 0) =>
                       /\ alive' /\ ret'
                       /\ batch'.draw_count_ = batch.draw_count_
                       /\ r \in batch'.render_data_set_
                       /\ ~rd'[r].batching
                 /\ ~full =>
                       /\ alive' /\ ret'
                       /\ batch'.draw_count_ = batch.draw_count_ + 1]_vars

\* the five merge buffers of a batch
MergeBuffers(b) ==
    <<b.vertices_, b.normals_, b.tex_coords_, b.matrix_indices_, b.indices_>>

\* r opts out of batching, or some pass of r uses another shader than the
\* texture shader
OptsOutOrOtherShader(r) ==
    \/ ~rd[r].batching
    \/ \E i \in 1..Len(PassShaders(r)) : PassShaders(r)[i] # "TEXTURE_SHADER"

\* C11: adding a render data that opts out of batching, or that has a pass
\* with another shader than the texture shader, returns success, leaves
\* draw_count, vertex_count, index_count and the merge buffers unchanged,
\* and puts the render data into the tracking set.
C11_UnbatchedAddLeavesBuffers ==
    [][\A r \in Renderables :
          (op' = [name |-> "add", arg |-> r] /\ OptsOutOrOtherShader(r))
          => /\ alive' /\ ret'
             /\ batch'.draw_count_ = batch.draw_count_
             /\ batch'.vertex_count_ = batch.vertex_count_
             /\ batch'.index_count_ = batch.index_count_
             /\ MergeBuffers(batch') = MergeBuffers(batch)
             /\ batch'.render_data_set_ = batch.render_data_set_ \cup {r}]_vars

\* C11 witness: a render data with a second pass on another shader was
\* added to a batch that holds a merged mesh, and is tracked.
C11_Witness ==
    /\ alive
    /\ op = [name |-> "add", arg |-> 5]
    /\ ret
    /\ 5 \in batch.render_data_set_
    /\ batch.draw_count_ = 1
    /\ batch.vertex_count_ > 0

\* C12: a setupMesh without the dirty argument that directly follows a
\* setupMesh that returned active changes no buffer and no counter (nothing
\* is regenerated or rebuilt), finds and leaves mesh_init true and returns
\* active.
C12_SetupMeshIdempotent ==
    [][(/\ alive /\ op.name = "setupMesh" /\ ret
        /\ op' = [name |-> "setupMesh", arg |-> 0])
       => /\ alive' /\ ret'
          /\ batch' = batch
          /\ merge_log' = merge_log
          /\ batch.mesh_init_ /\ batch'.mesh_init_]_vars

\* C12 witness: two setupMesh calls in a row, the second without the dirty
\* argument, on a batch that tracks a merged and an unmerged render data.
C12_Witness ==
    /\ alive
    /\ op = [name |-> "setupMesh", arg |-> 0]
    /\ ret
    /\ batch.mesh_init_
    /\ batch.draw_count_ = 1
    /\ Cardinality(batch.render_data_set_) = 2

RECURSIVE SumOver(_, _)
\* the sum of F[r] over the render data r of the set S
SumOver(F, S) ==
    IF S = {} THEN 0
    ELSE LET r == CHOOSE x \in S : TRUE IN F[r] + SumOver(F, S \ {r})

\* C13: when setupMesh is called after a merged member was disabled (or
\* its owner was) and other members remain, the call returns active and
\* the buffers hold nothing of the evicted member: no vertex, no
\* matrix-index tag, index, matrix or matrix_index_map entry of it, and
\* the counters are the totals of the remaining members.
C13_EvictionRegenerates ==
    [][\A e \in Renderables :
          (/\ op'.name = "setupMesh"
           /\ e \in batch.render_data_set_
           /\ \E k \in 1..Len(merge_log) : merge_log[k] = e
           /\ ~rd[e].enabled \/ ~rd[e].owner_enabled
           /\ \E r \in batch.render_data_set_ :
                 rd[r].enabled /\ rd[r].owner_enabled)
          => LET left == batch'.render_data_set_
             IN  /\ alive' /\ ret'
                 /\ e \notin left
                 /\ \A j \in 1..Len(batch'.vertices_) :
                       batch'.vertices_[j][2] # e /\ batch'.tex_coords_[j][2] # e
                 /\ \A j \in 1..Len(batch'.normals_) : batch'.normals_[j][2] # e
                 /\ DOMAIN batch'.matrix_index_map_ = left
                 /\ Len(merge_log') = Cardinality(left)
                 /\ {merge_log'[k] : k \in 1..Len(merge_log')} = left
                 /\ batch'.matrices_ =
                       [k \in 1..Len(merge_log') |-> ModelMatrix(merge_log'[k])]
                 /\ batch'.matrix_indices_ = ExpectedTags(merge_log')
                 /\ batch'.indices_ = ExpectedIndices(merge_log')
                 /\ batch'.draw_count_ = Cardinality(left)
                 /\ batch'.vertex_count_ =
                       SumOver([r \in Renderables |-> MeshVertexCount(r)], left)
                 /\ batch'.index_count_ =
                       SumOver([r \in Renderables |-> Len(MeshIndices(r))], left)
                 /\ batch'.index_offset_ = batch'.vertex_count_]_vars

\* C13 witness: a merged member was disabled, setupMesh evicted it and the
\* buffers hold the mesh of the member that remains.
C13_Witness ==
    /\ alive
    /\ op.name = "setupMesh"
    /\ ret
    /\ \E e \in Disabled : ~rd[e].batching /\ InitialBatching(e)
    /\ batch.draw_count_ = 1
    /\ batch.vertex_count_ > 0

\* the fields C14 lists, of a batch b
C14_Fields(b) ==
    <<MergeBuffers(b), b.vertex_count_, b.index_count_, b.index_offset_,
      b.draw_count_, b.matrices_, b.matrix_index_map_, b.render_data_set_,
      b.renderdata_, b.mesh_init_, b.batch_dirty_, b.not_batched_>>

\* C14: after a setupMesh that finds every member evicted, the buffers,
\* counters, matrices, matrix_index_map, tracking set, prototype and the
\* mesh_init, dirty and not_batched flags are those of a new batch.
C14_EmptiedBatchIsFresh ==
    (alive /\ op.name = "setupMesh" /\ ~ret)
    => C14_Fields(batch) = C14_Fields(NewBatch(VertexLimit, IndicesLimit, batch.material_))

\* C15: setupMesh returns inactive exactly when the scan leaves the
\* tracking set empty, and has then notified the pool and cleared the
\* buffers and the prototype; when it returns active the tracking set is
\* not empty, mesh_init is true, the dirty flag is false and the mesh holds
\* the contents of the buffers.
C15_SetupMeshResult ==
    [][op'.name = "setupMesh"
       => LET left == {r \in batch.render_data_set_ :
                          rd[r].enabled /\ rd[r].owner_enabled}
          IN  /\ (alive' /\ ~ret') <=> left = {}
              /\ batch'.render_data_set_ = left
              /\ (alive' /\ ~ret') =>
                          /\ free_calls' = free_calls + 1
                          /\ MergeBuffers(batch') = <<<<>>, <<>>, <<>>, <<>>, <<>>>>
                          /\ batch'.renderdata_ = <<>>
              /\ (alive' /\ ret') =>
                         /\ batch'.mesh_init_
                         /\ ~batch'.batch_dirty_
                         /\ batch'.mesh_.vertices = batch'.vertices_
                         /\ batch'.mesh_.normals = batch'.normals_
                         /\ batch'.mesh_.tex_coords = batch'.tex_coords_
                         /\ batch'.mesh_.indices = batch'.indices_
                         /\ batch'.mesh_.matrix_indices = batch'.matrix_indices_
                         /\ free_calls' = free_calls]_vars

\* C15 witness: setupMesh returned active and the mesh holds the vertices
\* and matrix indices of two merged render data.
C15_Witness ==
    /\ alive
    /\ op.name = "setupMesh"
    /\ ret
    /\ batch.draw_count_ = 2
    /\ batch.mesh_.matrix_indices = batch.matrix_indices_
    /\ Len(batch.mesh_.vertices) > 0

\* r is tracked and was accepted without being merged
AcceptedUnbatched(r) ==
    r \in batch.render_data_set_ /\ OptsOutOrOtherShader(r)

\* C18: a render data accepted unbatched contributes no vertices and no
\* indices to the merged buffers in any later state.
C18_UnbatchedStaysOut ==
    /\ \A j \in 1..Len(batch.vertices_) : ~AcceptedUnbatched(Contributor(j))
    /\ \A k \in 1..Len(merge_log) :
          Len(MeshIndices(merge_log[k])) > 0 => ~AcceptedUnbatched(merge_log[k])

\* C19: a batch with draw_count >= 1 holds a prototype render data.
C19_PrototypeWhileMerged == batch.draw_count_ >= 1 => batch.renderdata_ # <<>>

\* C20: the pool is notified at most once between two accepted adds.
C20_FreedAtMostOnce == free_calls <= 1

\* C17: the scan of setupMesh removes from the tracking set exactly the
\* members that are disabled or whose owner is, clears the batching flag
\* and the back-reference of each of them, leaves every other member in the
\* set with its flags as they were, and every render data remains.
C17_ScanEvictsDisabled ==
    [][op'.name = "setupMesh"
       => LET gone == {r \in batch.render_data_set_ :
                          ~rd[r].enabled \/ ~rd[r].owner_enabled}
          IN  /\ batch'.render_data_set_ = batch.render_data_set_ \ gone
              /\ DOMAIN rd' = DOMAIN rd
              /\ \A r \in gone :
                    /\ ~rd'[r].batching
                    /\ rd'[r].batch = "null"
                    /\ rd'[r].enabled = rd[r].enabled
                    /\ rd'[r].owner_enabled = rd[r].owner_enabled
              /\ \A r \in Renderables \ gone : rd'[r] = rd[r]]_vars

\* C17 witness: setupMesh evicted a member whose owner was disabled and
\* that was eligible and assigned to the batch, and kept a member that is
\* still eligible and assigned.
C17_Witness ==
    /\ alive
    /\ op.name = "setupMesh"
    /\ ret
    /\ \E e \in Disabled :
          /\ ~rd[e].owner_enabled
          /\ InitialBatching(e) /\ ~rd[e].batching
          /\ InitialBatchRef(e) = "this" /\ rd[e].batch = "null"
          /\ e \notin batch.render_data_set_
    /\ \E r \in batch.render_data_set_ : rd[r].batching /\ rd[r].batch = "this"

\* C16: with two batches, after any sequence of add and setupMesh calls a
\* render data is in the tracking set of at most one batch.
C16_MemberOfOneBatch ==
    batch.render_data_set_ \cap batch2.render_data_set_ = {}

====
